---------------------------- MODULE Spec2Model ----------------------------
(* Credential obfuscation engine of download_data.py: the pattern        *)
(* dispatcher, the character-class generator, the segment obfuscator,    *)
(* the BEGIN/END splitter, the key and multi-line block rewriters and    *)
(* the two-pass run over the credential catalog.                         *)
(*                                                                       *)
(* A Python str is a sequence of one-character strings; a CSV cell that  *)
(* the code parses (int(...), split(":")) is kept as such a sequence     *)
(* and parsed by the model, a cell that is only compared is a string.    *)
EXTENDS Integers, Sequences, FiniteSets, TLC

VARIABLES
    rng,                \* state of the process-wide generator `random`
    fn_pc,              \* which function was applied to fn_value
    fn_value,           \* argument `value` / `segment`
    fn_pattern,         \* argument `predefined_pattern`
    fn_result,          \* what the applied function returned
    key_pc,             \* which block function was applied to key_lines
    key_lines,          \* argument `lines` of create_new_key
    key_i,              \* argument `i` of split_in_bounds
    key_start,          \* argument `starting_position` of create_new_multiline
    key_result,         \* what the applied block function returned
    all_credentials,    \* the combined catalog, in catalog order
    files,              \* file path -> file content
    original,           \* file content before the run
    pass,               \* position of obfuscate_creds
    row_i,              \* index of the next row of the running pass
    journal             \* the file rewrites done so far, in order

vars == <<rng, fn_pc, fn_value, fn_pattern, fn_result,
          key_pc, key_lines, key_i, key_start, key_result,
          all_credentials, files, original, pass, row_i, journal>>

fn_vars == <<fn_pc, fn_value, fn_pattern, fn_result>>
key_vars == <<key_pc, key_lines, key_i, key_start, key_result>>
run_vars == <<all_credentials, files, original, pass, row_i, journal>>

-----------------------------------------------------------------------------
(* Bounds of the explored inputs.                                        *)

MaxTokens == 3          \* tokens concatenated into a credential value
MaxKeyLines == 4        \* lines of a key block
MaxRecords == 2         \* rows of the catalog
MaxSeed == 2            \* seeds of the generator left by earlier code

-----------------------------------------------------------------------------
(* Python str and list primitives.                                       *)

Min(a, b) == IF a < b THEN a ELSE b
Max(a, b) == IF a > b THEN a ELSE b

Range(s) == {s[k] : k \in 1..Len(s)}

\* s[a:b] and s[a:] for 0 <= a, 0 <= b
Slice(s, a, b) == SubSeq(s, a + 1, Min(b, Len(s)))
From(s, a) == SubSeq(s, a + 1, Len(s))

startswith(s, p) == Len(p) <= Len(s) /\ SubSeq(s, 1, Len(p)) = p

\* does p occur in s at 0-based offset k
OccursAt(s, p, k) == k + Len(p) <= Len(s) /\ SubSeq(s, k + 1, k + Len(p)) = p

\* p in s
Contains(s, p) == \E k \in 0..Len(s) : OccursAt(s, p, k)

\* s.index(p) / s.find(p) when p in s
index(s, p) == CHOOSE k \in 0..Len(s) :
                  OccursAt(s, p, k) /\ \A j \in 0..(k - 1) : ~OccursAt(s, p, j)

\* s.split(sep), sep not empty
RECURSIVE split(_, _)
split(s, sep) ==
    IF Contains(s, sep)
    THEN <<Slice(s, 0, index(s, sep))>> \o split(From(s, index(s, sep) + Len(sep)), sep)
    ELSE <<s>>

-----------------------------------------------------------------------------
(* The module `string`.                                                  *)

ascii_lowercase == <<"a","b","c","d","e","f","g","h","i","j","k","l","m",
                     "n","o","p","q","r","s","t","u","v","w","x","y","z">>
ascii_uppercase == <<"A","B","C","D","E","F","G","H","I","J","K","L","M",
                     "N","O","P","Q","R","S","T","U","V","W","X","Y","Z">>
digits == <<"0","1","2","3","4","5","6","7","8","9">>
ascii_letters == ascii_lowercase \o ascii_uppercase
\* string.punctuation without the backquote, which no modelled input contains
punctuation == <<"!","\"","#","$","%","&","'","(",")","*","+",",","-",".","/",
                 ":",";","<","=",">","?","@","[","\\","]","^","_","{","|",
                 "}","~">>

Lower == Range(ascii_lowercase)
Upper == Range(ascii_uppercase)
Digit == Range(digits)
Letter == Lower \cup Upper
Punct == Range(punctuation)
Space == {" ", "\t"}

-----------------------------------------------------------------------------
(* The module `random`: the generator is process-wide state; seed(x)     *)
(* resets it, and every choice() draws from it and advances it. The      *)
(* stream is a fixed function of the seed and the number of draws.       *)

seed(x) == [seed |-> x, n |-> 0]

randbelow(g, k) == ((g.seed + 3) * (g.n + 7) * 31 + g.n * g.n * 17 + g.seed * 5) % k

choice(seq, g) == seq[randbelow(g, Len(seq)) + 1]

advance(g) == [seed |-> g.seed, n |-> g.n + 1]

-----------------------------------------------------------------------------
(* Literals of the source.                                               *)

AKIA == <<"A","K","I","A">>
AIza == <<"A","I","z","a">>
ya29 == <<"y","a","2","9",".">>
eyJ == <<"e","y","J">>
dot == <<".">>
dot_eyJ == dot \o eyJ
xoxp == <<"x","o","x","p">>
xoxt == <<"x","o","x","t">>
googleusercontent == <<"a","p","p","s",".","g","o","o","g","l","e","u","s","e","r",
                       "c","o","n","t","e","n","t",".","c","o","m">>

-----------------------------------------------------------------------------
(* Character-class generator. Every function that draws returns its      *)
(* string together with the generator state it leaves behind.            *)

\* the generator as it stands when the loop reaches the k-th character:
\* one draw was made for each of the earlier characters in drawn
after_draws(g, drawn, k) ==
    [seed |-> g.seed, n |-> g.n + Cardinality({j \in drawn : j < k})]

generate_value(value, g) ==
    LET drawn == {j \in 1..Len(value) : value[j] \in Lower \cup Upper \cup Digit}
        obfuscated_value ==
            [k \in 1..Len(value) |->
                LET v == value[k] IN
                IF v \in Lower THEN choice(ascii_lowercase, after_draws(g, drawn, k))
                ELSE IF v \in Upper THEN choice(ascii_uppercase, after_draws(g, drawn, k))
                ELSE IF v \in Digit THEN choice(digits, after_draws(g, drawn, k))
                ELSE v]
    IN  [out |-> obfuscated_value, rng |-> after_draws(g, drawn, Len(value) + 1)]

-----------------------------------------------------------------------------
(* Segment obfuscator of the block path.                                 *)

\* the letter at j is the n or r of an escape, or the b or f of a literal
kept_letter(segment, j) ==
    \/ j > 1 /\ segment[j] \in {"n", "r"} /\ segment[j - 1] = "\\"
    \/ j < Len(segment) /\ segment[j] \in {"b", "f"} /\ segment[j + 1] \in {"'", "\""}

obfuscate_segment(segment, g) ==
    LET drawn == {j \in 1..Len(segment) :
                     \/ segment[j] \in Letter /\ ~kept_letter(segment, j)
                     \/ segment[j] \in Digit}
        new_line ==
            [j \in 1..Len(segment) |->
                LET char == segment[j] IN
                IF char \in Letter
                THEN IF kept_letter(segment, j) THEN char
                     ELSE choice(ascii_letters, after_draws(g, drawn, j))
                ELSE IF char \in Digit THEN choice(digits, after_draws(g, drawn, j))
                ELSE char]
    IN  [out |-> new_line, rng |-> after_draws(g, drawn, Len(segment) + 1)]

-----------------------------------------------------------------------------
(* Pattern dispatcher.                                                   *)

\* keep_head with the slice one character short
keep_head_short(value, k, g) ==
    LET r == generate_value(From(value, k - 1), g)
    IN  [out |-> Slice(value, 0, k - 1) \o r.out, rng |-> r.rng]

\* value[:k] + generate_value(value[k:])
keep_head(value, k, g) ==
    LET r == generate_value(From(value, k), g)
    IN  [out |-> Slice(value, 0, k) \o r.out, rng |-> r.rng]

\* literal + generate_value(value[len(literal):])
put_head(literal, value, g) ==
    LET r == generate_value(From(value, Len(literal)), g)
    IN  [out |-> literal \o r.out, rng |-> r.rng]

\* jwt_by_label with the payload obfuscated whole, as the signature is
jwt_by_label_plain_payload(value, g) ==
    IF Contains(value, dot_eyJ)
    THEN LET parts == split(value, dot)
             header == put_head(eyJ, parts[1], g)
             payload == generate_value(parts[2], header.rng)
         IN  IF Len(parts) >= 3
             THEN LET signature == generate_value(parts[3], payload.rng)
                  IN  [out |-> header.out \o dot \o payload.out \o dot \o signature.out,
                       rng |-> signature.rng]
             ELSE [out |-> header.out \o dot \o payload.out, rng |-> payload.rng]
    ELSE put_head(eyJ, value, g)

\* the branch of the label "JSON Web Token"
jwt_by_label(value, g) ==
    IF Contains(value, dot_eyJ)
    THEN LET parts == split(value, dot)
             header == put_head(eyJ, parts[1], g)
             payload == put_head(eyJ, parts[2], header.rng)
         IN  IF Len(parts) >= 3
             THEN LET signature == generate_value(parts[3], payload.rng)
                  IN  [out |-> header.out \o dot \o payload.out \o dot \o signature.out,
                       rng |-> signature.rng]
             ELSE [out |-> header.out \o dot \o payload.out, rng |-> payload.rng]
    ELSE put_head(eyJ, value, g)

\* the branch of a value that starts with eyJ
jwt_by_prefix(value, g) ==
    IF Contains(value, dot_eyJ)
    THEN LET pos == index(value, dot_eyJ)
             first == generate_value(Slice(value, 3, pos), g)
             second == generate_value(From(value, pos + 4), first.rng)
         IN  [out |-> eyJ \o first.out \o dot_eyJ \o second.out, rng |-> second.rng]
    ELSE put_head(eyJ, value, g)

\* the branch of a value that contains apps.googleusercontent.com
google_client(value, g) ==
    LET pos == index(value, googleusercontent)
        before == generate_value(Slice(value, 0, pos), g)
        after == generate_value(From(value, pos + 26), before.rng)
    IN  [out |-> before.out \o googleusercontent \o after.out, rng |-> after.rng]

get_obfuscated_value(value, predefined_pattern, g) ==
    IF predefined_pattern = "AWS Client ID" \/ startswith(value, AKIA)
    THEN keep_head(value, 4, g)
    ELSE IF predefined_pattern = "Google API Key" THEN put_head(AIza, value, g)
    ELSE IF predefined_pattern = "Google OAuth Access Token" THEN put_head(ya29, value, g)
    ELSE IF predefined_pattern = "JSON Web Token" THEN jwt_by_label(value, g)
    ELSE IF startswith(value, eyJ) THEN jwt_by_prefix(value, g)
    ELSE IF startswith(value, xoxp) THEN keep_head(value, 4, g)
    ELSE IF startswith(value, xoxt) THEN keep_head(value, 4, g)
    ELSE IF Contains(value, googleusercontent) THEN google_client(value, g)
    ELSE generate_value(value, g)

-----------------------------------------------------------------------------
(* Inputs of the functions on one string.                                *)

Patterns == {"", "AWS Client ID", "Google API Key", "Google OAuth Access Token",
             "JSON Web Token"}

Tokens == {AKIA, eyJ, dot_eyJ, xoxp, xoxt, googleusercontent,
           <<"a","S","7">>, <<".","q">>, <<"\\","n">>, <<"b","'">>}

\* the concatenations of 1..k tokens
RECURSIVE Concats(_)
Concats(k) ==
    IF k <= 1 THEN Tokens
    ELSE LET shorter == Concats(k - 1)
         IN  shorter \cup {s \o t : s \in shorter, t \in Tokens}

Values == Concats(MaxTokens)

Seeds == {seed(x) : x \in 1..MaxSeed}

Idle == [out |-> <<>>, rng |-> seed(0)]

-----------------------------------------------------------------------------
(* Specification of the functions on one string: an input is drawn and   *)
(* one of the three functions is applied to it once.                     *)

InitValue ==
    /\ rng \in Seeds
    /\ fn_pc = "input"
    /\ fn_value \in Values
    /\ fn_pattern \in Patterns
    /\ fn_result = Idle
    /\ key_pc = "off" /\ key_lines = <<>> /\ key_i = 0 /\ key_start = 0
    /\ key_result = Idle
    /\ all_credentials = <<>> /\ files = <<>> /\ original = <<>>
    /\ pass = "off" /\ row_i = 0 /\ journal = <<>>

Returned(name, r) ==
    /\ fn_pc = "input"
    /\ fn_pc' = name
    /\ fn_result' = r
    /\ rng' = r.rng
    /\ UNCHANGED <<fn_value, fn_pattern, key_vars, run_vars>>

CallGetObfuscatedValue ==
    Returned("get_obfuscated_value", get_obfuscated_value(fn_value, fn_pattern, rng))

CallGenerateValue ==
    Returned("generate_value", generate_value(fn_value, rng))

CallObfuscateSegment ==
    Returned("obfuscate_segment", obfuscate_segment(fn_value, rng))

NextValue == CallGetObfuscatedValue \/ CallGenerateValue \/ CallObfuscateSegment

SpecValue == InitValue /\ [][NextValue]_vars

-----------------------------------------------------------------------------
(* Properties of the pattern dispatcher.                                 *)

Dispatched == fn_pc = "get_obfuscated_value"

Alnum == Letter \cup Digit

\* C1: get_obfuscated_value returns a string of exactly the length of
\* value, for every value and every pattern label.
C1_LengthPreserved ==
    Dispatched => Len(fn_result.out) = Len(fn_value)

\* C2: at every position where the input character is not an ASCII letter
\* or digit, the output of get_obfuscated_value has the identical
\* character at that position.
C2_StructurePreserved ==
    Dispatched =>
        \A k \in 1..Len(fn_value) :
            fn_value[k] \notin Alnum =>
                k <= Len(fn_result.out) /\ fn_result.out[k] = fn_value[k]

SameClassAt(old, new, k) ==
    /\ k <= Len(new)
    /\ old[k] \in Lower => new[k] \in Lower
    /\ old[k] \in Upper => new[k] \in Upper
    /\ old[k] \in Digit => new[k] \in Digit

\* C3: in the output of get_obfuscated_value and in the output of
\* obfuscate_segment, a lowercase position holds a lowercase letter, an
\* uppercase position an uppercase letter and a digit position a digit.
C3_ClassPreserved ==
    fn_pc \in {"get_obfuscated_value", "obfuscate_segment"} =>
        \A k \in 1..Len(fn_value) : SameClassAt(fn_value, fn_result.out, k)

\* C5 as stated: with the label "AWS Client ID" the output starts with
\* the literal AKIA, for every value.
C5_StartsWithAKIA ==
    (Dispatched /\ fn_pattern = "AWS Client ID") => startswith(fn_result.out, AKIA)

\* C5 as amended: with the label "AWS Client ID" the output starts with
\* the first four characters of the value, unchanged; it starts with AKIA
\* when the value does.
C5_KeepsFirstFour ==
    (Dispatched /\ fn_pattern = "AWS Client ID") =>
        /\ Slice(fn_result.out, 0, 4) = Slice(fn_value, 0, 4)
        /\ startswith(fn_value, AKIA) => startswith(fn_result.out, AKIA)

C5_Witness ==
    /\ Dispatched /\ fn_pattern = "AWS Client ID"
    /\ Len(fn_value) > 4 /\ ~startswith(fn_value, AKIA)
    /\ fn_result.out # fn_value

\* the dispatch reaches one of the two JSON-Web-Token branches
JwtByLabel ==
    /\ ~startswith(fn_value, AKIA)
    /\ fn_pattern = "JSON Web Token"

JwtByPrefix ==
    /\ ~startswith(fn_value, AKIA)
    /\ fn_pattern = ""
    /\ startswith(fn_value, eyJ)

-----------------------------------------------------------------------------
(* Regular expressions of the block path.                                *)

BEGIN == <<"B","E","G","I","N">>
END == <<"E","N","D">>
DEK == <<"D","E","K","-">>
Proc == <<"P","r","o","c","-">>
Version == <<"V","e","r","s","i","o","n">>
ssh_rsa == <<"s","s","h","-","r","s","a">>

PemWidth == 64          \* assert len(segment) >= 64
PemRun == 16            \* {16,} of pem_regex

Dash == {"-"}
SpaceOrWord == Space \cup Letter \cup Digit \cup {"_"}          \* [\s\w]
PemChar == Letter \cup Digit \cup {"=", "/", "+", "_", "-"}    \* [0-9A-Za-z=/+_-]

\* first 1-based position at or after k whose character is not in class
skip(s, k, class) ==
    LET stops == {j \in k..Len(s) : s[j] \notin class}
    IN  IF stops # {} THEN CHOOSE j \in stops : \A m \in stops : j <= m
        ELSE IF k > Len(s) THEN k
        ELSE Len(s) + 1

\* -+\s*WORD[\s\w]*-+ matched at 1-based position k: the position after the
\* match, 0 when there is none. Every quantified class is disjoint from
\* what follows it, so the greedy match is the only one.
marker_end(s, k, word) ==
    LET a == skip(s, k, Dash)
        b == skip(s, a, Space)
        c == b + Len(word)
        d == skip(s, c, SpaceOrWord)
        e == skip(s, d, Dash)
    IN  IF a > k /\ OccursAt(s, word, b - 1) /\ e > d THEN e ELSE 0

\* regex.split(s, 1) for the marker regex of word
marker_split(s, word) ==
    IF \E k \in 1..Len(s) : marker_end(s, k, word) > 0
    THEN LET k == CHOOSE k \in 1..Len(s) :
                      /\ marker_end(s, k, word) > 0
                      /\ \A j \in 1..(k - 1) : marker_end(s, j, word) = 0
         IN  <<SubSeq(s, 1, k - 1), SubSeq(s, marker_end(s, k, word), Len(s))>>
    ELSE <<s>>

\* pem_regex with every segment accepted
pem_regex_search_any(segment) == TRUE

\* pem_regex.search(segment) is not None
pem_regex_search(segment) ==
    \E k \in 0..Len(segment) :
        /\ k + PemRun <= Len(segment)
        /\ \A j \in (k + 1)..(k + PemRun) : segment[j] \in PemChar

-----------------------------------------------------------------------------
(* Block boundary splitter. tag is "ok" for a returned triple, "None"    *)
(* for the (None, None, None) sentinel and "ValueError" when unpacking a *)
(* split raises.                                                         *)

Triple(start, segment, end) ==
    [tag |-> "ok", start |-> start, segment |-> segment, end |-> end]
NoTriple(tag) == [tag |-> tag, start |-> <<>>, segment |-> <<>>, end |-> <<>>]

split_in_bounds(i, lines_len, old_line) ==
    IF i = 0 /\ lines_len = 1
    THEN LET a == marker_split(old_line, BEGIN) IN
         IF Len(a) # 2 THEN NoTriple("ValueError")
         ELSE LET b == marker_split(a[2], END) IN
         IF Len(b) # 2 THEN NoTriple("ValueError")
         ELSE LET segment == b[1] IN
         IF Len(segment) = 0 THEN NoTriple("None")
         ELSE LET parts == split(old_line, segment) IN
         IF Len(parts) # 2 THEN NoTriple("ValueError")
         ELSE Triple(parts[1], segment, parts[2])
    ELSE IF i = 0 /\ Contains(old_line, BEGIN)
    THEN LET a == marker_split(old_line, BEGIN) IN
         IF Len(a) # 2 THEN NoTriple("ValueError")
         ELSE LET segment == a[2] IN
         IF Len(segment) = 0 THEN NoTriple("None")
         ELSE Triple(split(old_line, segment)[1], segment, <<>>)
    ELSE IF i = lines_len - 1 /\ Contains(old_line, END)
    THEN LET a == marker_split(old_line, END) IN
         IF Len(a) # 2 THEN NoTriple("ValueError")
         ELSE LET segment == a[1] IN
         IF Len(segment) = 0 THEN NoTriple("None")
         ELSE LET parts == split(old_line, segment)
              IN  Triple(<<>>, segment, parts[Len(parts)])
    ELSE Triple(<<>>, old_line, <<>>)

-----------------------------------------------------------------------------
(* Key block and multi-line block obfuscators. tag is "ok" for returned  *)
(* lines, otherwise the exception that ended the call.                   *)

Lines(new_lines, g) == [tag |-> "ok", lines |-> new_lines, rng |-> g]
Raised(tag, g) == [tag |-> tag, lines |-> <<>>, rng |-> g]

is_header(segment) ==
    Contains(segment, DEK) \/ Contains(segment, Proc) \/ Contains(segment, Version)

\* one iteration of the loop: the new line for old_l, split as t, and
\* is_first_segment as the iteration leaves it
KeyLine(new_l, is_first_segment, g) ==
    [tag |-> "ok", line |-> new_l, first |-> is_first_segment, rng |-> g]
KeyRaised(tag, g) == [tag |-> tag, line |-> <<>>, first |-> FALSE, rng |-> g]

first_segment(t, r) ==
    t.start \o (Slice(t.segment, 0, PemWidth) \o r.out) \o t.end

key_line(old_l, t, is_first_segment, g) ==
    IF t.tag = "ValueError" THEN KeyRaised("ValueError", g)
    ELSE IF t.tag = "None" THEN KeyLine(old_l, is_first_segment, g)
    ELSE IF is_header(t.segment) \/ ~pem_regex_search(t.segment)
    THEN KeyLine(t.start \o t.segment \o t.end, is_first_segment, g)
    ELSE IF is_first_segment
    THEN IF Len(t.segment) < PemWidth THEN KeyRaised("AssertionError", g)
         ELSE KeyLine(first_segment(t, obfuscate_segment(From(t.segment, PemWidth), g)), FALSE,
                      obfuscate_segment(From(t.segment, PemWidth), g).rng)
    ELSE KeyLine(t.start \o obfuscate_segment(t.segment, g).out \o t.end, is_first_segment,
                 obfuscate_segment(t.segment, g).rng)

RECURSIVE key_loop(_, _, _, _, _)
key_next(lines, i, new_lines, s) ==
    IF s.tag # "ok" THEN Raised(s.tag, s.rng)
    ELSE key_loop(lines, i + 1, Append(new_lines, s.line), s.first, s.rng)

key_loop(lines, i, new_lines, is_first_segment, g) ==
    IF i >= Len(lines) THEN Lines(new_lines, g)
    ELSE key_next(lines, i, new_lines,
                  key_line(lines[i + 1], split_in_bounds(i, Len(lines), lines[i + 1]),
                           is_first_segment, g))

create_new_key(lines, g) == key_loop(lines, 0, <<>>, TRUE, g)

NonSpace == Letter \cup Punct \cup Digit

\* the number of leading characters of line that are not in NonSpace
padding(line) == skip(line, 1, {ch \in Range(line) : ch \notin NonSpace}) - 1

RECURSIVE rest_loop(_, _, _, _)
rest_loop(lines, k, new_lines, g) ==
    IF k > Len(lines) THEN Lines(new_lines, g)
    ELSE LET r == obfuscate_segment(lines[k], g)
         IN  rest_loop(lines, k + 1, Append(new_lines, r.out), r.rng)

create_new_multiline(lines, starting_position, g) ==
    IF Len(lines) = 0 THEN Raised("IndexError", g)
    ELSE LET first_line == lines[1]
             position == starting_position + padding(first_line)
             r == obfuscate_segment(From(first_line, position), g)
             new_first == Slice(first_line, 0, position) \o r.out
             kept == IF Contains(first_line, ssh_rsa)
                     THEN LET s == index(first_line, ssh_rsa)
                          IN  Slice(new_first, 0, s) \o ssh_rsa \o From(new_first, s + 7)
                     ELSE new_first
         IN  rest_loop(lines, 2, <<kept>>, r.rng)

-----------------------------------------------------------------------------
(* Inputs of the block functions: the lines of one record's span.        *)

pem_sample == <<"M","I","I","E","p","A","I","B","A","A","K","C","A","Q","E","A","4","f","5","w","+","/","x","9">>

\* n characters of base64 text
Body(n) == [k \in 1..n |-> pem_sample[((k - 1) % Len(pem_sample)) + 1]]

begin_only == <<"-","-","-","-","-","B","E","G","I","N"," ","K","E","Y","-","-","-","-","-">>
end_only == <<"-","-","-","-","-","E","N","D"," ","K","E","Y","-","-","-","-","-">>
begin_body == <<"k"," ","="," ","\"">> \o begin_only \o Body(PemWidth + 2)
body_end == Body(PemWidth + 2) \o end_only \o <<"\"",";">>
begin_echo == <<"x","-","B","E","G","I","N","-","x">>
end_echo == <<"x","-","E","N","D","-","x">>
begin_word == <<"#"," ","B","E","G","I","N">>
ssh_line == <<" "," ","k",":"," ","s","s","h","-","r","s","a"," ">> \o Body(PemRun + 4)
dek_line == <<"D","E","K","-","I","n","f","o",":"," ">> \o Body(PemRun + 4)
comment_line == <<"C","o","m","m","e","n","t",":"," ","n","o","n","e">>
long_body == Body(PemWidth + 2)
short_body == Body(PemRun + 4)
escaped_body == Body(PemWidth) \o <<"\\","n","b","'","r","f","1">>
one_line_key == begin_only \o Body(PemWidth + 2) \o end_only

FirstLines == {begin_only, begin_body, begin_echo, begin_word, ssh_line, long_body}
InnerLines == {dek_line, comment_line, long_body, short_body, escaped_body}
LastLines == {end_only, body_end, end_echo, long_body}
SingleLines == {one_line_key, begin_only, begin_echo, long_body, short_body}

\* the sequences of at most k inner lines
RECURSIVE Inner(_)
Inner(k) ==
    IF k <= 0 THEN {<<>>}
    ELSE LET shorter == Inner(k - 1)
         IN  shorter \cup {Append(m, l) : m \in shorter, l \in InnerLines}

Blocks ==
    {<<l>> : l \in SingleLines} \cup
    {<<f>> \o m \o <<l>> : f \in FirstLines, m \in Inner(MaxKeyLines - 2), l \in LastLines}

StartingPositions == {0, 5}

-----------------------------------------------------------------------------
(* Specification of the block functions: a span is drawn and one of the  *)
(* three functions is applied to it once.                                *)

InitKey ==
    /\ rng \in Seeds
    /\ key_pc = "input"
    /\ key_lines \in Blocks
    /\ key_i = 0 /\ key_start = 0
    /\ key_result = Idle
    /\ fn_pc = "off" /\ fn_value = <<>> /\ fn_pattern = "" /\ fn_result = Idle
    /\ all_credentials = <<>> /\ files = <<>> /\ original = <<>>
    /\ pass = "off" /\ row_i = 0 /\ journal = <<>>

CallSplitInBounds ==
    /\ key_pc = "input"
    /\ \E i \in 0..(Len(key_lines) - 1) :
        /\ key_i' = i
        /\ key_result' = split_in_bounds(i, Len(key_lines), key_lines[i + 1])
    /\ key_pc' = "split_in_bounds"
    /\ UNCHANGED <<rng, key_lines, key_start, fn_vars, run_vars>>

CallCreateNewKey ==
    /\ key_pc = "input"
    /\ key_result' = create_new_key(key_lines, rng)
    /\ rng' = key_result'.rng
    /\ key_pc' = "create_new_key"
    /\ UNCHANGED <<key_lines, key_i, key_start, fn_vars, run_vars>>

CallCreateNewMultiline ==
    /\ key_pc = "input"
    /\ \E p \in StartingPositions :
        /\ key_start' = p
        /\ key_result' = create_new_multiline(key_lines, p, rng)
    /\ rng' = key_result'.rng
    /\ key_pc' = "create_new_multiline"
    /\ UNCHANGED <<key_lines, key_i, fn_vars, run_vars>>

NextKey == CallSplitInBounds \/ CallCreateNewKey \/ CallCreateNewMultiline

SpecKey == InitKey /\ [][NextKey]_vars

-----------------------------------------------------------------------------
(* Properties of the block path.                                         *)

\* the whole line is one marker of word
MarkerOnly(line, word) == marker_end(line, 1, word) = Len(line) + 1

\* the line has 16 or more consecutive characters of the base64 class
Base64Run(line) ==
    \E k \in 1..Len(line) :
        /\ k + 15 <= Len(line)
        /\ \A j \in k..(k + 15) : line[j] \in PemChar

HeaderLine(line) ==
    Contains(line, DEK) \/ Contains(line, Proc) \/ Contains(line, Version)

\* new is old with letters redrawn as letters, digits as digits and every
\* other character kept
Redrawn(old, new) ==
    /\ Len(new) = Len(old)
    /\ \A j \in 1..Len(old) :
        /\ old[j] \in Letter => new[j] \in Letter
        /\ old[j] \in Digit => new[j] \in Digit
        /\ old[j] \notin Alnum => new[j] = old[j]

\* the positions of text that the segment obfuscator draws for
DrawnAt(text) ==
    {j \in 1..Len(text) : text[j] \in Alnum /\ ~kept_letter(text, j)}

\* the body lines between the two marker lines of a block
BodyLines(lines) ==
    {k \in 2..(Len(lines) - 1) : ~HeaderLine(lines[k]) /\ Base64Run(lines[k])}

FirstBody(lines) == CHOOSE k \in BodyLines(lines) : \A m \in BodyLines(lines) : k <= m

RECURSIVE BlockDraws(_, _)
BlockDraws(lines, k) ==
    IF k = 0 THEN 0
    ELSE BlockDraws(lines, k - 1) +
         (IF k \notin BodyLines(lines) THEN 0
          ELSE IF k = FirstBody(lines) THEN Cardinality(DrawnAt(From(lines[k], PemWidth)))
          ELSE Cardinality(DrawnAt(lines[k])))

MarkedBlock ==
    /\ key_pc = "create_new_key"
    /\ key_result.tag = "ok"
    /\ Len(key_lines) >= 2
    /\ MarkerOnly(key_lines[1], BEGIN)
    /\ MarkerOnly(key_lines[Len(key_lines)], END)

\* C8: for a key block between a BEGIN marker line and an END marker line,
\* create_new_key returns as many lines as it was given; the two marker
\* lines, the header lines and the lines without a base64 run of 16 are
\* unchanged; the first base64 body line keeps its first 64 characters;
\* every later base64 body line is redrawn over its whole length, so that
\* the call draws once for every letter and digit after the first 64 of
\* the first body line and for every letter and digit of the later ones.
C8_KeyBlockShape ==
    MarkedBlock =>
        LET n == Len(key_lines)
            new == key_result.lines
        IN  /\ Len(new) = n
            /\ new[1] = key_lines[1]
            /\ new[n] = key_lines[n]
            /\ \A k \in 2..(n - 1) :
                IF k \notin BodyLines(key_lines) THEN new[k] = key_lines[k]
                ELSE /\ Redrawn(key_lines[k], new[k])
                     /\ k = FirstBody(key_lines) =>
                            Slice(new[k], 0, PemWidth) = Slice(key_lines[k], 0, PemWidth)
            /\ key_result.rng.n = BlockDraws(key_lines, n)

C8_Witness ==
    /\ MarkedBlock
    /\ Cardinality(BodyLines(key_lines)) >= 2
    /\ \E k \in BodyLines(key_lines) :
        /\ k # FirstBody(key_lines)
        /\ Slice(key_result.lines[k], 0, PemWidth) # Slice(key_lines[k], 0, PemWidth)

\* C9: whenever split_in_bounds returns a triple, prefix + body + suffix is
\* the line it was given, the prefix of a first line holds its BEGIN
\* marker and the suffix of a last line holds its END marker.
C9_SplitReassembles ==
    (key_pc = "split_in_bounds" /\ key_result.tag = "ok") =>
        LET line == key_lines[key_i + 1]
            t == key_result
        IN  /\ t.start \o t.segment \o t.end = line
            /\ (key_i = 0 /\ Contains(line, BEGIN)) => Contains(t.start, BEGIN)
            /\ (key_i = Len(key_lines) - 1 /\ Contains(line, END)) => Contains(t.end, END)

-----------------------------------------------------------------------------
(* Conversions of catalog cells.                                         *)

hexdigits == digits \o <<"a","b","c","d","e","f">>
hexdigits_upper == digits \o <<"A","B","C","D","E","F">>

digit_value(c) ==
    IF c \in Range(hexdigits)
    THEN (CHOOSE k \in 1..Len(hexdigits) : hexdigits[k] = c) - 1
    ELSE (CHOOSE k \in 1..Len(hexdigits_upper) : hexdigits_upper[k] = c) - 1

\* int(s, base) of a non-empty digit string
RECURSIVE int(_, _)
int(s, base) ==
    IF Len(s) = 0 THEN 0
    ELSE int(SubSeq(s, 1, Len(s) - 1), base) * base + digit_value(s[Len(s)])

\* a ^ b on naturals
RECURSIVE xor(_, _)
xor(a, b) ==
    IF a = 0 THEN b
    ELSE IF b = 0 THEN a
    ELSE 2 * xor(a \div 2, b \div 2) + (((a % 2) + (b % 2)) % 2)

newline == <<"\n">>
colon == <<":">>

line_start_of(row) == int(split(row.LineStartLineEnd, colon)[1], 10)
line_end_of(row) == int(split(row.LineStartLineEnd, colon)[2], 10)

\* random.seed(line_start ^ int(row["FileID"], 16))
row_seed(row) == seed(xor(line_start_of(row), int(row.FileID, 16)))

-----------------------------------------------------------------------------
(* File access: the whole file is read, split at "\n", and written back  *)
(* line by line, each line followed by "\n".                             *)

\* read that returns what the file held when the run began
read_stale(path) == original[path]

\* f.read() of the file at path
read(path) == files[path]

\* lines[k] for a Python index k, which counts from the end when negative
at(lines, k) == IF k < 0 THEN Len(lines) + k + 1 ELSE k + 1

drop_empty_last(lines) ==
    IF lines[Len(lines)] = <<>> THEN SubSeq(lines, 1, Len(lines) - 1) ELSE lines

RECURSIVE written(_)
written(lines) ==
    IF Len(lines) = 0 THEN <<>> ELSE lines[1] \o newline \o written(Tail(lines))

-----------------------------------------------------------------------------
(* One iteration of the loop of replace_rows on a file content. tag is   *)
(* "skip" when the row is passed over, "write" when the file is          *)
(* rewritten with content, otherwise the exception that ends the run.    *)

Skipped(g) == [tag |-> "skip", content |-> <<>>, rng |-> g]
Rewritten(content, g) == [tag |-> "write", content |-> content, rng |-> g]
\* an exception that is swallowed and the row passed over
Failed_skipped(tag, g) == [tag |-> "skip", content |-> <<>>, rng |-> g]

Failed(tag, g) == [tag |-> tag, content |-> <<>>, rng |-> g]

replace_rows_skips(row) ==
    \/ row.CryptographyKey # "" \/ line_end_of(row) - line_start_of(row) > 0
    \/ row.GroundTruth \notin {"T", "N/A"}
    \/ row.ValueStart = <<>> \/ row.ValueEnd = <<>>

replace_row(row, content, g) ==
    IF replace_rows_skips(row) THEN Skipped(g)
    ELSE LET line_start == line_start_of(row)
             value_start == int(row.ValueStart, 10)
             value_end == int(row.ValueEnd, 10)
             lines == split(content, newline)
             k == at(lines, line_start - 1)
         IN
         IF k < 1 \/ k > Len(lines) THEN Failed("IndexError", g)
         ELSE LET old_line == lines[k]
                  indentation == padding(old_line)
                  value == Slice(old_line, indentation + value_start, indentation + value_end)
                  r == get_obfuscated_value(value, row.PredefinedPattern, row_seed(row))
                  new_line == Slice(old_line, 0, indentation + value_start) \o r.out
                              \o From(old_line, indentation + value_end)
                  new_lines == [lines EXCEPT ![k] = new_line]
              IN  Rewritten(written(drop_empty_last(new_lines)), r.rng)

-----------------------------------------------------------------------------
(* One iteration of the loop of process_pem_keys on a file content.      *)

\* the skip test that looks at the label only
process_pem_keys_skips_label_only(row) == row.GroundTruth \notin {"T", "N/A"}

process_pem_keys_skips(row) ==
    \/ row.CryptographyKey = "" /\ line_end_of(row) - line_start_of(row) < 1
    \/ row.GroundTruth \notin {"T", "N/A"}

process_pem_key(row, content, g) ==
    IF process_pem_keys_skips(row) THEN Skipped(g)
    ELSE LET line_start == line_start_of(row)
             line_end == line_end_of(row)
             lines == split(content, newline)
             a == Min(line_start - 1, Len(lines))
             b == Max(a, Min(line_end, Len(lines)))
             span == SubSeq(lines, a + 1, b)
             seeded == row_seed(row)
         IN
         IF row.CryptographyKey = "" /\ row.ValueStart = <<>> THEN Failed("ValueError", seeded)
         ELSE LET r == IF row.CryptographyKey # ""
                       THEN create_new_key(span, seeded)
                       ELSE create_new_multiline(span, int(row.ValueStart, 10), seeded)
              IN  IF r.tag # "ok" THEN Failed(r.tag, r.rng)
                  ELSE LET new_lines == SubSeq(lines, 1, a) \o r.lines
                                        \o SubSeq(lines, b + 1, Len(lines))
                       IN  Rewritten(written(drop_empty_last(new_lines)), r.rng)

-----------------------------------------------------------------------------
(* Inputs of a run: two dataset files and the rows of the catalog.       *)

file_a == "dataset/a"
file_b == "dataset/b"

content_a ==
    written(<< <<" "," ","p"," ","="," ","\"","a","b","\"",";"," ","q"," ","="," ","\"","c","d","1","2","\"">>,
               begin_only,
               long_body,
               short_body,
               end_only,
               <<"s",":"," ","s","s","h","-","r","s","a"," ">> \o short_body,
               <<" "," ">> \o short_body,
               one_line_key >>)

\* the last line of this file has no "\n"
content_b ==
    <<"t"," ","="," ","\"","x","o","x","p","A","b","1","2","\"">> \o newline \o short_body \o newline \o short_body

Row(id, path, range, from, to, pattern, key, truth) ==
    [FileID |-> id, FilePath |-> path, LineStartLineEnd |-> range,
     ValueStart |-> from, ValueEnd |-> to, PredefinedPattern |-> pattern,
     CryptographyKey |-> key, GroundTruth |-> truth]

id_a == <<"1","a">>
id_b == <<"2","F">>

google_row == Row(id_a, file_a, <<"1",":","1">>, <<"5">>, <<"7">>, "Google API Key", "", "T")
plain_row == Row(id_a, file_a, <<"1",":","1">>, <<"1","5">>, <<"1","9">>, "", "", "T")
key_row == Row(id_a, file_a, <<"2",":","5">>, <<>>, <<>>, "", "x", "T")
multi_row == Row(id_a, file_a, <<"6",":","7">>, <<"3">>, <<>>, "", "", "N/A")
slack_row == Row(id_b, file_b, <<"1",":","1">>, <<"5">>, <<"1","3">>, "", "", "T")
short_key_row == Row(id_b, file_b, <<"2",":","3">>, <<>>, <<>>, "", "x", "T")
false_row == Row(id_b, file_b, <<"1",":","1">>, <<"5">>, <<"1","3">>, "", "", "F")
no_value_row == Row(id_a, file_a, <<"1",":","1">>, <<>>, <<>>, "", "", "T")
single_key_row == Row(id_a, file_a, <<"8",":","8">>, <<"0">>, <<"4">>, "", "x", "T")
false_key_row == Row(id_a, file_a, <<"2",":","5">>, <<"0">>, <<"4">>, "", "x", "F")

Rows == {google_row, plain_row, key_row, multi_row, slack_row, short_key_row,
         false_row, no_value_row, single_key_row, false_key_row}

\* the sequences of at most k rows
RECURSIVE Catalogs(_)
Catalogs(k) ==
    IF k <= 0 THEN {<<>>}
    ELSE LET shorter == Catalogs(k - 1)
         IN  shorter \cup {Append(c, r) : c \in shorter, r \in Rows}

-----------------------------------------------------------------------------
(* Specification of a run of obfuscate_creds, from the state in which    *)
(* the catalogs are loaded into all_credentials: replace_rows over every *)
(* row, then process_pem_keys over every row. A step is one iteration of *)
(* a loop: read, transform, write. An exception ends the run.            *)

Init ==
    /\ rng \in Seeds
    /\ all_credentials \in Catalogs(MaxRecords)
    /\ files = (file_a :> content_a) @@ (file_b :> content_b)
    /\ original = files
    /\ pass = "replace_rows"
    /\ row_i = 1
    /\ journal = <<>>
    /\ fn_pc = "off" /\ fn_value = <<>> /\ fn_pattern = "" /\ fn_result = Idle
    /\ key_pc = "off" /\ key_lines = <<>> /\ key_i = 0 /\ key_start = 0
    /\ key_result = Idle

\* the effect of one iteration whose outcome is r
Iterated(row, before, r) ==
    /\ rng' = r.rng
    /\ IF r.tag = "skip"
       THEN /\ row_i' = row_i + 1
            /\ UNCHANGED <<files, pass, journal>>
       ELSE IF r.tag = "write"
       THEN /\ files' = [files EXCEPT ![row.FilePath] = r.content]
            /\ journal' = Append(journal, [pass |-> pass, row |-> row_i,
                                           path |-> row.FilePath,
                                           before |-> before, after |-> r.content])
            /\ row_i' = row_i + 1
            /\ UNCHANGED pass
       ELSE /\ pass' = "raised"
            /\ UNCHANGED <<files, journal, row_i>>
    /\ UNCHANGED <<all_credentials, original, fn_vars, key_vars>>

replace_rows ==
    /\ pass = "replace_rows"
    /\ row_i <= Len(all_credentials)
    /\ LET row == all_credentials[row_i]
           before == read(row.FilePath)
       IN  Iterated(row, before, replace_row(row, before, rng))

process_pem_keys ==
    /\ pass = "process_pem_keys"
    /\ row_i <= Len(all_credentials)
    /\ LET row == all_credentials[row_i]
           before == read(row.FilePath)
       IN  Iterated(row, before, process_pem_key(row, before, rng))

\* replace_rows returns and obfuscate_creds calls process_pem_keys
replace_rows_done ==
    /\ pass = "replace_rows"
    /\ row_i > Len(all_credentials)
    /\ pass' = "process_pem_keys"
    /\ row_i' = 1
    /\ UNCHANGED <<rng, all_credentials, files, original, journal, fn_vars, key_vars>>

\* process_pem_keys returns and obfuscate_creds returns
process_pem_keys_done ==
    /\ pass = "process_pem_keys"
    /\ row_i > Len(all_credentials)
    /\ pass' = "done"
    /\ UNCHANGED <<rng, all_credentials, files, original, row_i, journal, fn_vars, key_vars>>

Next == replace_rows \/ replace_rows_done \/ process_pem_keys \/ process_pem_keys_done

Spec == Init /\ [][Next]_vars

-----------------------------------------------------------------------------
(* Properties of a run.                                                  *)

\* the lines of a file as the code sees them
LinesOf(content) == drop_empty_last(split(content, newline))

\* the row that caused the k-th rewrite
Cause(k) == all_credentials[journal[k].row]

SingleLine(row) == row.CryptographyKey = "" /\ line_end_of(row) = line_start_of(row)

\* the k-th rewrite done again on the same content from generator state g
Redone(k, g) ==
    IF journal[k].pass = "replace_rows"
    THEN replace_row(Cause(k), journal[k].before, g)
    ELSE process_pem_key(Cause(k), journal[k].before, g)

\* the content that the rewrite of row leaves of content
Applied(row, content) ==
    LET r == IF SingleLine(row)
             THEN replace_row(row, content, rng)
             ELSE process_pem_key(row, content, rng)
    IN  IF r.tag = "write" THEN r.content ELSE content

Rewrites(row) ==
    IF SingleLine(row) THEN ~replace_rows_skips(row) ELSE ~process_pem_keys_skips(row)

\* two rows of one file whose spans share no character
DisjointSpans(r1, r2) ==
    /\ r1.FilePath = r2.FilePath
    /\ \/ line_end_of(r1) < line_start_of(r2)
       \/ line_end_of(r2) < line_start_of(r1)
       \/ /\ SingleLine(r1) /\ SingleLine(r2)
          /\ \/ int(r1.ValueEnd, 10) <= int(r2.ValueStart, 10)
             \/ int(r2.ValueEnd, 10) <= int(r1.ValueStart, 10)

\* C4: what a rewrite writes depends on the row and the content it read
\* only, whatever state the generator was left in by earlier rows; and two
\* rows with disjoint spans in one file leave the same file content in
\* either processing order.
C4_OrderIndependent ==
    /\ \A k \in 1..Len(journal) : \A g \in Seeds :
            Redone(k, g).content = journal[k].after
    /\ (pass = "done" /\ Len(all_credentials) = 2) =>
            LET r1 == all_credentials[1]
                r2 == all_credentials[2]
                path == r1.FilePath
            IN  (Rewrites(r1) /\ Rewrites(r2) /\ DisjointSpans(r1, r2)) =>
                    /\ files[path] = Applied(r2, Applied(r1, original[path]))
                    /\ files[path] = Applied(r1, Applied(r2, original[path]))

\* C7: a rewrite by replace_rows of a row with
\* 0 <= valueStart < valueEnd <= len(line) - indentation changes only the
\* characters of line lineStart at [indentation + valueStart,
\* indentation + valueEnd): the rest of that line keeps value and
\* position, every other line keeps content and order.
C7_OnlySpanChanges ==
    \A k \in 1..Len(journal) :
        journal[k].pass = "replace_rows" =>
            LET row == Cause(k)
                old == LinesOf(journal[k].before)
                new == LinesOf(journal[k].after)
                at_line == line_start_of(row)
            IN  (at_line >= 1 /\ at_line <= Len(old)) =>
                LET line == old[at_line]
                    lo == padding(line) + int(row.ValueStart, 10)
                    hi == padding(line) + int(row.ValueEnd, 10)
                IN  (lo < hi /\ hi <= Len(line)) =>
                        /\ Len(new) = Len(old)
                        /\ \A m \in 1..Len(old) : m # at_line => new[m] = old[m]
                        /\ Len(new[at_line]) = Len(line)
                        /\ \A j \in 1..Len(line) :
                            (j <= lo \/ j > hi) => new[at_line][j] = line[j]

\* the content of path that the k-th rewrite finds: what the latest
\* earlier rewrite of path wrote, or the original content
LeftBefore(k, path) ==
    LET earlier == {j \in 1..(k - 1) : journal[j].path = path}
    IN  IF earlier = {} THEN original[path]
        ELSE journal[CHOOSE j \in earlier : \A m \in earlier : m <= j].after

\* C10: every rewrite caused by a single-line row precedes every rewrite
\* caused by a key or multi-line row; the rewrites of one pass are in
\* catalog order; every rewrite reads what the rewrite before it left in
\* the file, and the file holds what the last rewrite wrote.
C10_TwoPassOrder ==
    /\ \A j, k \in 1..Len(journal) :
        j < k =>
            /\ ~(~SingleLine(Cause(j)) /\ SingleLine(Cause(k)))
            /\ journal[j].pass = journal[k].pass => journal[j].row < journal[k].row
    /\ \A k \in 1..Len(journal) :
        journal[k].before = LeftBefore(k, journal[k].path)
    /\ \A path \in DOMAIN files :
        files[path] = LeftBefore(Len(journal) + 1, path)

C10_Witness ==
    /\ pass = "done"
    /\ \E j, k \in 1..Len(journal) :
        /\ j < k
        /\ SingleLine(Cause(j)) /\ ~SingleLine(Cause(k))
        /\ journal[j].row > journal[k].row
        /\ journal[j].path = journal[k].path
        /\ journal[k].before # original[journal[k].path]

\* rows of every combination of key flag, line range, value range and label
Ranges == {<<"1",":","1">>, <<"2",":","5">>, <<"6",":","7">>, <<"8",":","8">>}
Labels == {"T", "N/A", "F", "Template", ""}

Combinations ==
    {Row(id_a, file_a, range, from, to, "", key, truth) :
        range \in Ranges, from \in {<<>>, <<"0">>}, to \in {<<>>, <<"4">>},
        key \in {"", "x"}, truth \in Labels}

\* C11: no row causes two rewrites in a run; for every combination of key
\* flag, line range, value range and label at least one of the two passes
\* skips the row, and both skip a row whose label is neither T nor N/A;
\* such a row causes no rewrite, and a file that no rewrite names holds
\* the content it had before the run.
C11_AtMostOneRewrite ==
    /\ \A j, k \in 1..Len(journal) : journal[j].row = journal[k].row => j = k
    /\ \A row \in Combinations \cup Range(all_credentials) :
        /\ replace_rows_skips(row) \/ process_pem_keys_skips(row)
        /\ row.GroundTruth \notin {"T", "N/A"} =>
                replace_rows_skips(row) /\ process_pem_keys_skips(row)
    /\ \A k \in 1..Len(journal) : Cause(k).GroundTruth \in {"T", "N/A"}
    /\ \A path \in DOMAIN files :
        (\A k \in 1..Len(journal) : journal[k].path # path) =>
            files[path] = original[path]

C11_Witness ==
    /\ pass = "done"
    /\ \E k \in 1..Len(journal) :
        /\ Cause(k).CryptographyKey # ""
        /\ line_end_of(Cause(k)) = line_start_of(Cause(k))
        /\ journal[k].after # journal[k].before
    /\ \E i \in 1..Len(all_credentials) :
        /\ all_credentials[i].GroundTruth \notin {"T", "N/A"}
        /\ all_credentials[i].CryptographyKey # ""
        /\ \A k \in 1..Len(journal) : journal[k].row # i

\* lines[line_start - 1:line_end] of the file content that row names
SpanOf(row, content) ==
    LET lines == split(content, newline)
        a == Min(line_start_of(row) - 1, Len(lines))
        b == Max(a, Min(line_end_of(row), Len(lines)))
    IN  SubSeq(lines, a + 1, b)

\* t is the split of a line whose body has a base64 run and is no header
IsBody(t) == t.tag = "ok" /\ ~HeaderLine(t.segment) /\ Base64Run(t.segment)

\* the first such body of the span has fewer than 64 characters
ShortFirstBody(span) ==
    \E i \in 1..Len(span) :
        /\ IsBody(split_in_bounds(i - 1, Len(span), span[i]))
        /\ Len(split_in_bounds(i - 1, Len(span), span[i]).segment) < PemWidth
        /\ \A j \in 1..(i - 1) : ~IsBody(split_in_bounds(j - 1, Len(span), span[j]))

\* row is a key row that process_pem_keys does not pass over
KeyRecord(row) == row.CryptographyKey # "" /\ row.GroundTruth \in {"T", "N/A"}

\* process_pem_keys is about to start a key row whose first body is short
AtShortKey ==
    /\ pass = "process_pem_keys"
    /\ row_i <= Len(all_credentials)
    /\ KeyRecord(all_credentials[row_i])
    /\ ShortFirstBody(SpanOf(all_credentials[row_i],
                              files[all_credentials[row_i].FilePath]))

\* C12: when process_pem_keys starts a key row whose first base64 body is
\* shorter than 64 characters, the step raises: no file is written, so the
\* file of the row and the files rewritten before keep their content, the
\* journal of rewrites gets no entry, and once the run has raised no row
\* is processed any more.
C12_ShortBodyAborts ==
    [][/\ AtShortKey =>
            /\ pass' = "raised"
            /\ files' = files
            /\ journal' = journal
            /\ row_i' = row_i
       /\ pass # "raised"]_vars

C12_Witness ==
    /\ pass = "raised"
    /\ row_i < Len(all_credentials)
    /\ KeyRecord(all_credentials[row_i])
    /\ ShortFirstBody(SpanOf(all_credentials[row_i],
                              files[all_credentials[row_i].FilePath]))
    /\ ~process_pem_keys_skips(all_credentials[row_i + 1])
    /\ files = original

=============================================================================
